---- MODULE Spec2Model ----
(***************************************************************************)
(* Model of the prediction service (src/main.py) and of the dashboard's    *)
(* reference-data loading (src/app.py).                                    *)
(*                                                                         *)
(* Text is modelled as a sequence of one-character strings, so that        *)
(* "05001" is <<"0","5","0","0","1">>.  A Python float is modelled as an   *)
(* exact decimal [m |-> mantissa, e |-> number of fractional digits],      *)
(* normalised so that the mantissa carries no trailing fractional zero.    *)
(***************************************************************************)
EXTENDS Integers, Sequences, FiniteSets, TLC

VARIABLES
    pc,         \* position of the process being modelled
    csv,        \* rows of the master CSV file (the file's content)
    maestro,    \* main.py: the table after normalisation and deduplication
    req,        \* the last request served by predict (NoReq before any)
    resp,       \* outcome of the last predict call (NoResp before any)
    X,          \* the vector handed to model.predict by the last call
    modelCalls, \* number of model.predict invocations during the last call
    modelResult,\* what model.predict did: "none", "raised" or "returned"
    modelY,     \* the scalar model.predict returned (NoneF if it did not)
    dash,       \* app.py: the dashboard's table after its normalisation
    geojson,    \* app.py: the properties of the geometry features
    map,        \* app.py: what _update_map_and_labels last returned
    nx,         \* input of the normaliser under test
    ny,         \* norm_mpio(nx) once computed (empty before)
    header,     \* column names of the master CSV file
    no_file,    \* the resource files that do not exist
    svc,        \* main.py: outcome of start-up and the columns resolved
    dsh,        \* app.py: outcome of start-up and the columns resolved
    municipio_dropdown, \* app.py: value of the municipality dropdown
    metric_dropdown,    \* app.py: value of the metric dropdown
    pred_mpio,  \* app.py: the dcc.Store "pred_mpio"
    last_ok,    \* code sent by the most recent successful prediction
    cb,         \* app.py: what the last _predict call returned
    pending     \* whether _update_map_and_labels is due to run

loadVars == <<header, no_file, svc, dsh>>

uiVars ==
    <<municipio_dropdown, metric_dropdown, pred_mpio, last_ok, cb, pending>>

vars ==
    <<pc, csv, maestro, req, resp, X, modelCalls, modelResult, modelY,
      dash, geojson, map, nx, ny, loadVars, uiVars>>

----------------------------------------------------------------------------
(* Bounds *)

MaxLen == 6

MaxRows == 2

MaxFeatures == 1

----------------------------------------------------------------------------
(* Text helpers *)

Digits == {"0", "1", "2", "3", "4", "5", "6", "7", "8", "9"}

Whitespace == {" "}

RECURSIVE lstrip(_)
lstrip(s) ==
    IF s # << >> /\ Head(s) \in Whitespace THEN lstrip(Tail(s)) ELSE s

RECURSIVE rstrip(_)
rstrip(s) ==
    IF s # << >> /\ s[Len(s)] \in Whitespace
    THEN rstrip(SubSeq(s, 1, Len(s) - 1))
    ELSE s

\* str.strip()
strip(s) == rstrip(lstrip(s))

\* re.sub(r"\D", "", s)
sub_nondigits(s) == SelectSeq(s, LAMBDA c : c \in Digits)

\* s[-n:]
last_n(s, n) == IF Len(s) > n THEN SubSeq(s, Len(s) - n + 1, Len(s)) ELSE s

RECURSIVE zfill(_, _)
zfill(s, w) == IF Len(s) >= w THEN s ELSE zfill(<<"0">> \o s, w)

\* str.replace(a, b) for one-character a and b
replace(s, a, b) == [i \in 1..Len(s) |-> IF s[i] = a THEN b ELSE s[i]]

----------------------------------------------------------------------------
(* main.py: norm_mpio *)

norm_mpio_no_truncate(code) ==
    zfill(sub_nondigits(strip(code)), 5)

norm_mpio(code) ==
    LET s1 == strip(code)
        s2 == sub_nondigits(s1)
        s3 == IF Len(s2) > 5 THEN last_n(s2, 5) ELSE s2
    IN  zfill(s3, 5)

----------------------------------------------------------------------------
(* Floats *)

\* what float() can return, and Python's None
Num(m, e) == [k |-> "num", m |-> m, e |-> e]
NoneF == [k |-> "None", m |-> 0, e |-> 0]
NaNF == [k |-> "nan", m |-> 0, e |-> 0]
InfF == [k |-> "inf", m |-> 0, e |-> 0]

\* a missing CSV cell: pandas reads it as the float NaN
NaNCell == <<"NaN">>

DigitVal(c) ==
    CASE c = "0" -> 0 [] c = "1" -> 1 [] c = "2" -> 2 [] c = "3" -> 3
      [] c = "4" -> 4 [] c = "5" -> 5 [] c = "6" -> 6 [] c = "7" -> 7
      [] c = "8" -> 8 [] c = "9" -> 9

RECURSIVE DigitsVal(_)
DigitsVal(s) ==
    IF s = << >> THEN 0
    ELSE 10 * DigitsVal(SubSeq(s, 1, Len(s) - 1)) + DigitVal(s[Len(s)])

RECURSIVE NormDec(_, _)
NormDec(m, e) ==
    IF e > 0 /\ m % 10 = 0 THEN NormDec(m \div 10, e - 1) ELSE Num(m, e)

Lower(c) ==
    CASE c = "N" -> "n" [] c = "A" -> "a" [] c = "I" -> "i" [] c = "F" -> "f"
      [] c = "T" -> "t" [] c = "Y" -> "y" [] OTHER -> c

AllDigits(s) == \A i \in 1..Len(s) : s[i] \in Digits

\* index of the first "." of s, or 0
FirstDot(s) ==
    IF \E i \in 1..Len(s) : s[i] = "."
    THEN CHOOSE i \in 1..Len(s) : s[i] = "." /\ \A j \in 1..(i - 1) : s[j] # "."
    ELSE 0

\* float(s) for a text s; NoneF stands for the ValueError that the caller
\* catches.  Cells with an exponent or an underscore are not drawn.
py_float(s0) ==
    LET s == strip(s0)
        neg == s # << >> /\ Head(s) = "-"
        u == IF s # << >> /\ Head(s) \in {"+", "-"} THEN Tail(s) ELSE s
        w == [i \in 1..Len(u) |-> Lower(u[i])]
        d == FirstDot(u)
        ip == IF d = 0 THEN u ELSE SubSeq(u, 1, d - 1)
        fp == IF d = 0 THEN << >> ELSE SubSeq(u, d + 1, Len(u))
    IN  IF w = <<"n", "a", "n">> THEN NaNF
        ELSE IF w \in {<<"i", "n", "f">>,
                        <<"i", "n", "f", "i", "n", "i", "t", "y">>} THEN InfF
        ELSE IF AllDigits(ip) /\ AllDigits(fp) /\ Len(ip) + Len(fp) >= 1
             THEN LET v == NormDec(DigitsVal(ip \o fp), Len(fp))
                  IN  IF neg THEN Num(0 - v.m, v.e) ELSE v
             ELSE NoneF

\* main.py: to_float_maybe_comma, with an unparseable text read as zero
to_float_zero_default(x) ==
    IF x = NaNCell THEN NoneF
    ELSE LET v == py_float(replace(strip(x), ",", "."))
         IN  IF v = NoneF THEN Num(0, 0) ELSE v

\* main.py: to_float_maybe_comma
to_float_maybe_comma(x) ==
    IF x = NaNCell THEN NoneF
    ELSE py_float(replace(strip(x), ",", "."))

----------------------------------------------------------------------------
(* main.py: loading the master table *)

\* Series.astype(str) on a cell
astype_str(cell) == IF cell = NaNCell THEN <<"n", "a", "n">> ELSE cell

\* maestro_raw[COL_MPIO].astype(str).map(norm_mpio)
normalize_codes(rows) ==
    [i \in 1..Len(rows) |->
        [rows[i] EXCEPT !.code = norm_mpio(astype_str(rows[i].code))]]

RECURSIVE keep_last_from(_, _)
keep_last_from(rows, i) ==
    IF i > Len(rows) THEN << >>
    ELSE (IF \A j \in (i + 1)..Len(rows) : rows[j].code # rows[i].code
          THEN <<rows[i]>> ELSE << >>)
         \o keep_last_from(rows, i + 1)

RECURSIVE keep_first_from(_, _)
keep_first_from(rows, i) ==
    IF i > Len(rows) THEN << >>
    ELSE (IF \A j \in 1..(i - 1) : rows[j].code # rows[i].code
          THEN <<rows[i]>> ELSE << >>)
         \o keep_first_from(rows, i + 1)

\* drop_duplicates(subset=[COL_MPIO], keep="last")
drop_duplicates_keep_last(rows) == keep_last_from(rows, 1)

\* drop_duplicates(subset=[COL_MPIO], keep="first")
drop_duplicates(rows) == keep_first_from(rows, 1)

\* the load without the normalisation of the join column
load_maestro_raw_keys(rows) ==
    drop_duplicates([i \in 1..Len(rows) |->
        [rows[i] EXCEPT !.code = astype_str(rows[i].code)]])

\* main.py lines 93-101: the table the service serves from
load_maestro(rows) == drop_duplicates(normalize_codes(rows))

\* maestro.index
index(table) == {table[i].code : i \in 1..Len(table)}

\* maestro.loc[mpio], for mpio in the index
loc(table, mpio) ==
    table[CHOOSE i \in 1..Len(table) :
             table[i].code = mpio /\ \A j \in 1..(i - 1) : table[j].code # mpio]

----------------------------------------------------------------------------
(* main.py: the model's expected columns *)

NUM_FEATS ==
    <<"RANGO_EDAD", "ESTRATO", "PB1_bin", "SEXO_bin",
      "P33", "ipm_depto", "INDICE", "saber_punt_global_mean">>

CAT_FEATS == << >>

\* the columns in the order in which predict builds its dictionary
FEATURE_ORDER_as_data ==
    <<"RANGO_EDAD", "ESTRATO", "PB1_bin", "SEXO_bin",
      "P33", "INDICE", "ipm_depto", "saber_punt_global_mean">>

FEATURE_ORDER == NUM_FEATS \o CAT_FEATS

Range(f) == {f[i] : i \in DOMAIN f}

----------------------------------------------------------------------------
(* main.py: requests and responses *)

\* Optional[str] holding None
NoneStr == <<"None">>

NoReq ==
    [raw |-> << >>, municipio_code |-> << >>,
     RANGO_EDAD |-> NoneF, ESTRATO |-> NoneF, PB1_bin |-> NoneF,
     SEXO_bin |-> NoneF, P33 |-> NoneF, dept_code |-> NoneStr]

\* PredictRequest, with the validator _norm_mpio_val applied
PredictRequest(raw, sv, dept) ==
    [raw |-> raw, municipio_code |-> norm_mpio(raw),
     RANGO_EDAD |-> sv[1], ESTRATO |-> sv[2], PB1_bin |-> sv[3],
     SEXO_bin |-> sv[4], P33 |-> sv[5], dept_code |-> dept]

NoResp ==
    [status |-> 0, kind |-> "none", code |-> << >>, missing |-> << >>,
     prediction |-> NoneF, features_used |-> << >>]

\* HTTPException(404, "Código de municipio no encontrado en el maestro: ...")
NotFound(mpio) ==
    [status |-> 404, kind |-> "not_found", code |-> mpio, missing |-> << >>,
     prediction |-> NoneF, features_used |-> << >>]

\* HTTPException(404, "Datos faltantes en maestro para ...: [...]")
MissingData(mpio, missing) ==
    [status |-> 404, kind |-> "missing", code |-> mpio, missing |-> missing,
     prediction |-> NoneF, features_used |-> << >>]

\* HTTPException(500, "Error al predecir: ...")
PredictError ==
    [status |-> 500, kind |-> "predict_error", code |-> << >>,
     missing |-> << >>, prediction |-> NoneF, features_used |-> << >>]

RECURSIVE Pow10(_)
Pow10(e) == IF e = 0 THEN 1 ELSE 10 * Pow10(e - 1)

\* the response with the score clamped to [0, 1]
PredictResponse_clamped(y, data) ==
    [status |-> 200, kind |-> "ok", code |-> << >>, missing |-> << >>,
     prediction |-> IF y.k = "num" /\ y.m > Pow10(y.e) THEN Num(1, 0)
                    ELSE IF y.k = "num" /\ y.m < 0 THEN Num(0, 0)
                    ELSE y,
     features_used |-> data]

\* PredictResponse(prediction=..., features_used=...)
PredictResponse(y, data) ==
    [status |-> 200, kind |-> "ok", code |-> << >>, missing |-> << >>,
     prediction |-> y, features_used |-> data]

\* pd.DataFrame([data], columns=...): the single row, as a vector
DataFrameRow(data, columns) ==
    [i \in 1..Len(columns) |->
        IF columns[i] \in DOMAIN data THEN data[columns[i]] ELSE NaNF]

INDICATOR_NAMES == <<"INDICE", "ipm_depto", "saber_punt_global_mean">>

\* predict, with the lookup done without the membership test
predict_no_membership_test(table, r, out) ==
    LET mpio == r.municipio_code
        row == IF mpio \in index(table) THEN loc(table, mpio) ELSE table[1]
        data ==
            ("RANGO_EDAD" :> r.RANGO_EDAD) @@ ("ESTRATO" :> r.ESTRATO) @@
            ("PB1_bin" :> r.PB1_bin) @@ ("SEXO_bin" :> r.SEXO_bin) @@
            ("P33" :> r.P33) @@
            ("INDICE" :> to_float_maybe_comma(row.indice)) @@
            ("ipm_depto" :> to_float_maybe_comma(row.ipm)) @@
            ("saber_punt_global_mean" :> to_float_maybe_comma(row.saber))
        Xrow == DataFrameRow(data, FEATURE_ORDER)
    IN  IF table = << >>
        THEN [resp |-> NotFound(mpio), X |-> << >>, calls |-> 0]
        ELSE IF out.raises
        THEN [resp |-> PredictError, X |-> Xrow, calls |-> 1]
        ELSE [resp |-> PredictResponse(out.y, data), X |-> Xrow, calls |-> 1]

\* predict, with the failure of the model reported as a 404
predict_error_as_404(table, r, out) ==
    LET mpio == r.municipio_code
    IN  IF mpio \notin index(table)
        THEN [resp |-> NotFound(mpio), X |-> << >>, calls |-> 0]
        ELSE
        LET row == loc(table, mpio)
            val_indice == to_float_maybe_comma(row.indice)
            val_ipm == to_float_maybe_comma(row.ipm)
            val_saber == to_float_maybe_comma(row.saber)
            vals == <<val_indice, val_ipm, val_saber>>
            absent == SelectSeq(<<1, 2, 3>>, LAMBDA i : vals[i] = NoneF)
            missing == [i \in 1..Len(absent) |-> INDICATOR_NAMES[absent[i]]]
            data ==
                ("RANGO_EDAD" :> r.RANGO_EDAD) @@ ("ESTRATO" :> r.ESTRATO) @@
                ("PB1_bin" :> r.PB1_bin) @@ ("SEXO_bin" :> r.SEXO_bin) @@
                ("P33" :> r.P33) @@ ("INDICE" :> val_indice) @@
                ("ipm_depto" :> val_ipm) @@
                ("saber_punt_global_mean" :> val_saber)
            Xrow == DataFrameRow(data, FEATURE_ORDER)
        IN  IF missing # << >>
            THEN [resp |-> MissingData(mpio, missing), X |-> << >>, calls |-> 0]
            ELSE IF out.raises
            THEN [resp |-> [PredictError EXCEPT !.status = 404],
                  X |-> Xrow, calls |-> 1]
            ELSE [resp |-> PredictResponse(out.y, data), X |-> Xrow, calls |-> 1]

\* main.py: predict.  out is what model.predict does with the vector:
\* it raises, or it returns an array whose first entry is out.y
predict(table, r, out) ==
    LET mpio == r.municipio_code
    IN  IF mpio \notin index(table)
        THEN [resp |-> NotFound(mpio), X |-> << >>, calls |-> 0]
        ELSE
        LET row == loc(table, mpio)
            val_indice == to_float_maybe_comma(row.indice)
            val_ipm == to_float_maybe_comma(row.ipm)
            val_saber == to_float_maybe_comma(row.saber)
            vals == <<val_indice, val_ipm, val_saber>>
            absent == SelectSeq(<<1, 2, 3>>, LAMBDA i : vals[i] = NoneF)
            missing == [i \in 1..Len(absent) |-> INDICATOR_NAMES[absent[i]]]
            dept_code ==
                IF r.dept_code = NoneStr THEN astype_str(row.depto)
                ELSE r.dept_code
            data0 ==
                ("RANGO_EDAD" :> r.RANGO_EDAD) @@ ("ESTRATO" :> r.ESTRATO) @@
                ("PB1_bin" :> r.PB1_bin) @@ ("SEXO_bin" :> r.SEXO_bin) @@
                ("P33" :> r.P33) @@ ("INDICE" :> val_indice) @@
                ("ipm_depto" :> val_ipm) @@
                ("saber_punt_global_mean" :> val_saber)
            data ==
                IF "dept_code" \in Range(CAT_FEATS)
                THEN data0 @@ ("dept_code" :> dept_code)
                ELSE data0
            Xrow == DataFrameRow(data, FEATURE_ORDER)
        IN  IF missing # << >>
            THEN [resp |-> MissingData(mpio, missing), X |-> << >>, calls |-> 0]
            ELSE IF out.raises
            THEN [resp |-> PredictError, X |-> Xrow, calls |-> 1]
            ELSE [resp |-> PredictResponse(out.y, data), X |-> Xrow, calls |-> 1]

----------------------------------------------------------------------------
(* app.py: the dashboard's master table *)

IsIntText(c) == c # NaNCell /\ c # << >> /\ AllDigits(c)

IsFloatText(c) ==
    /\ c # NaNCell
    /\ FirstDot(c) > 0
    /\ Len(c) >= 2
    /\ AllDigits(SubSeq(c, 1, FirstDot(c) - 1))
    /\ AllDigits(SubSeq(c, FirstDot(c) + 1, Len(c)))

\* pd.read_csv without dtype: the type pandas gives a column of cells
infer_dtype(cells) ==
    IF \A i \in 1..Len(cells) : IsIntText(cells[i]) THEN "int64"
    ELSE IF \A i \in 1..Len(cells) :
                cells[i] = NaNCell \/ IsIntText(cells[i]) \/ IsFloatText(cells[i])
         THEN "float64"
         ELSE "object"

RECURSIVE strip_leading_zeros(_)
strip_leading_zeros(s) ==
    IF Len(s) > 1 /\ Head(s) = "0" THEN strip_leading_zeros(Tail(s)) ELSE s

RECURSIVE strip_trailing_zeros(_)
strip_trailing_zeros(s) ==
    IF Len(s) > 1 /\ s[Len(s)] = "0"
    THEN strip_trailing_zeros(SubSeq(s, 1, Len(s) - 1))
    ELSE s

\* str() of the float read from a numeric text (values in [1e-4, 1e16))
float_str(c) ==
    LET d == FirstDot(c)
        ip == IF d = 0 THEN c ELSE SubSeq(c, 1, d - 1)
        fp == IF d = 0 THEN << >> ELSE SubSeq(c, d + 1, Len(c))
    IN  strip_leading_zeros(IF ip = << >> THEN <<"0">> ELSE ip)
        \o <<".">>
        \o strip_trailing_zeros(IF fp = << >> THEN <<"0">> ELSE fp)

\* Series.astype(str) on cell i of a column read without dtype
column_str(cells, i) ==
    LET t == infer_dtype(cells)
    IN  IF cells[i] = NaNCell THEN <<"n", "a", "n">>
        ELSE IF t = "int64" THEN strip_leading_zeros(cells[i])
        ELSE IF t = "float64" THEN float_str(cells[i])
        ELSE cells[i]

\* app.py lines 23-54: the dashboard's table; the code column is
\* .astype(str).str.strip().str.zfill(5), twice
load_dash(rows) ==
    LET codes == [i \in 1..Len(rows) |-> rows[i].code]
        deptos == [i \in 1..Len(rows) |-> rows[i].depto]
        once(t) == zfill(strip(t), 5)
    IN  [i \in 1..Len(rows) |->
            [rows[i] EXCEPT !.code = once(once(column_str(codes, i))),
                            !.depto = strip(column_str(deptos, i))]]

\* app.py: to_float
to_float(x) ==
    IF x = NaNCell THEN NoneF
    ELSE py_float(strip(replace(x, ",", ".")))

\* app.py: series_metric, as the column the metric reads
metric_cell(row, metric_key) ==
    IF metric_key = "INDICE" THEN row.indice
    ELSE IF metric_key = "IPM" THEN row.ipm
    ELSE row.saber

----------------------------------------------------------------------------
(* app.py: the geometry *)

\* props.get(key, default), with NoneStr for a key the feature lacks
prop_get(v, default) == IF v = NoneStr THEN default ELSE v

\* app.py lines 151-165: the body of the loop, for one feature
load_feature(props) ==
    LET dpto == sub_nondigits(strip(prop_get(props.DPTO_CCDGO, << >>)))
        mpio == sub_nondigits(strip(prop_get(props.MPIO_CCDGO, << >>)))
        legacy == sub_nondigits(strip(
                      prop_get(props.MpCodigo, prop_get(props.MPIO_CCDGO, << >>))))
        code ==
            IF dpto # << >> /\ mpio # << >>
            THEN zfill(last_n(dpto, 2), 2) \o zfill(last_n(mpio, 3), 3)
            ELSE IF legacy # << >> THEN zfill(last_n(legacy, 5), 5) ELSE << >>
    IN  [props EXCEPT !.COD_MUNICIPIO = code]

load_geojson(features) ==
    [i \in 1..Len(features) |-> load_feature(features[i])]

\* app.py: all_geojson_codes(gj, "COD_MUNICIPIO")
all_geojson_codes(gj) ==
    [i \in 1..Len(gj) |-> zfill(prop_get(gj[i].COD_MUNICIPIO, << >>), 5)]

----------------------------------------------------------------------------
(* app.py: _update_map_and_labels *)

NoMap ==
    [error |-> FALSE, locations |-> << >>, z |-> << >>, custom |-> << >>,
     labels |-> << >>, hl_code |-> NoneStr]

\* str(v) of an Optional[str]
str_opt(v) == IF v = NoneStr THEN <<"N", "o", "n", "e">> ELSE v

\* truthiness of an Optional[str]
truthy(v) == v # NoneStr /\ v # << >>

\* indices of the rows of the table carrying a key
rows_with(table, code) == {i \in 1..Len(table) : table[i].code = code}

Min(S) == CHOOSE x \in S : \A y \in S : x <= y

\* labels holds the three values handed to fmt
update_map_and_labels(table, gj, mpio_from_dropdown, metric_key, mpio_pred) ==
    LET sel == rows_with(table, zfill(str_opt(mpio_from_dropdown), 5))
        label(col) ==
            IF sel = {} THEN NoneF
            ELSE to_float(metric_cell(table[Min(sel)], col))
        locations_all == all_geojson_codes(gj)
        \* z_series.get(code, None)
        val(code) ==
            IF rows_with(table, code) = {} THEN NoneF
            ELSE to_float(metric_cell(table[Min(rows_with(table, code))],
                                      metric_key))
        z_map == [i \in 1..Len(locations_all) |->
                    IF val(locations_all[i]) \in {NoneF, NaNF} THEN NoneF
                    ELSE val(locations_all[i])]
        feat(code) ==
            {i \in 1..Len(gj) : prop_get(gj[i].COD_MUNICIPIO, << >>) = code}
        custom == [i \in 1..Len(locations_all) |->
            LET code == locations_all[i]
            IN  IF rows_with(table, code) # {}
                THEN <<table[Min(rows_with(table, code))].depto_nom,
                       table[Min(rows_with(table, code))].muni_nom,
                       val(code)>>
                ELSE <<<< >>,
                       IF feat(code) = {} THEN << >>
                       ELSE prop_get(gj[Min(feat(code))].MPIO_CCDGO, << >>),
                       val(code)>>]
        hl_code ==
            IF truthy(mpio_pred) THEN zfill(str_opt(mpio_pred), 5)
            ELSE IF truthy(mpio_from_dropdown)
            THEN zfill(str_opt(mpio_from_dropdown), 5)
            ELSE NoneStr
        \* a key carried by several rows makes z_series.get return a Series,
        \* whose truth value raises
        ambiguous ==
            \E i \in 1..Len(locations_all) :
                Cardinality(rows_with(table, locations_all[i])) > 1
    IN  IF ambiguous
        THEN [NoMap EXCEPT !.error = TRUE]
        ELSE [error |-> FALSE, locations |-> locations_all, z |-> z_map,
              custom |-> custom,
              labels |-> <<label("INDICE"), label("IPM"), label("SABER")>>,
              hl_code |-> hl_code]

----------------------------------------------------------------------------
(* Start-up of the two programs: resources and column aliases *)

\* start-up not attempted
NoLoad ==
    [status |-> "none", why |-> "", COL_MPIO |-> "None", COL_DEPTO |-> "None",
     COL_DEPTO_NOM |-> "None", COL_MPIO_NOM |-> "None",
     COL_INDICE |-> "None", COL_IPM |-> "None", COL_SABER |-> "None"]

\* the first candidate that is a column name, "None" when there is none
\* (pick then raises)
pick(colnames, candidates) ==
    IF \E i \in 1..Len(candidates) : candidates[i] \in colnames
    THEN candidates[Min({i \in 1..Len(candidates) : candidates[i] \in colnames})]
    ELSE "None"

\* main.py lines 56, 64, 70, 78, 86
MAIN_MPIO ==
    <<"COD_MUNICIPIO", "cod_municipio", "MUNICIPIO_COD", "CODIGO_MUNICIPIO",
      "MpCodigo">>
MAIN_DEPTO ==
    <<"COD_DEPARTAMENTO", "cod_departamento", "DEPARTAMENTO", "DEPTO_COD",
      "DEPARTAMENTO_COD">>
MAIN_INDICE == <<"INDICE", "indice", "INDICE_FIJO", "INDICE_INTERNET">>
MAIN_IPM == <<"ipm_depto", "ipm", "IPM_DEPTO">>
MAIN_SABER ==
    <<"saber_punt_global_mean", "SABER_PUNT_GLOBAL_MEAN", "saber_global">>

\* app.py lines 40-48
APP_DEPTO_COD ==
    <<"COD_DEPARTAMENTO", "cod_departamento", "DEPTO_COD", "DEPARTAMENTO_COD">>
APP_DEPTO_NOM ==
    <<"DEPARTAMENTO", "departamento", "NOMBRE_DEPARTAMENTO", "NOM_DEPARTAMENTO">>
APP_MPIO_COD ==
    <<"COD_MUNICIPIO", "cod_municipio", "MUNICIPIO_COD", "CODIGO_MUNICIPIO">>
APP_MPIO_NOM ==
    <<"MUNICIPIO", "municipio", "NOMBRE_MUNICIPIO", "NOM_MUNICIPIO">>
APP_INDICE == <<"INDICE", "indice", "INDICE_FIJO", "INDICE_INTERNET">>
APP_IPM == <<"ipm", "ipm_depto", "IPM_DEPTO">>
APP_SABER ==
    <<"saber_punt_global_mean", "SABER_PUNT_GLOBAL_MEAN", "saber_global">>

Fatal(why) == [NoLoad EXCEPT !.status = "fatal", !.why = why]

\* main.py lines 48-109: the start-up of the service.  The names of the
\* header carry no surrounding blanks.
start_service(colnames, missing_files) ==
    IF "csv" \in missing_files THEN Fatal("no_csv")
    ELSE IF \/ pick(colnames, MAIN_MPIO) = "None"
            \/ pick(colnames, MAIN_INDICE) = "None"
            \/ pick(colnames, MAIN_IPM) = "None"
            \/ pick(colnames, MAIN_SABER) = "None"
    THEN Fatal("no_column")
    ELSE IF "model" \in missing_files THEN Fatal("no_model")
    ELSE [NoLoad EXCEPT !.status = "loaded",
                        !.COL_MPIO = pick(colnames, MAIN_MPIO),
                        !.COL_DEPTO = pick(colnames, MAIN_DEPTO),
                        !.COL_INDICE = pick(colnames, MAIN_INDICE),
                        !.COL_IPM = pick(colnames, MAIN_IPM),
                        !.COL_SABER = pick(colnames, MAIN_SABER)]

\* app.py lines 23-148: the start-up of the dashboard
start_dash(colnames, missing_files) ==
    IF "csv" \in missing_files THEN Fatal("no_csv")
    \* maestro["COD_MUNICIPIO"], before any alias is tried
    ELSE IF "COD_MUNICIPIO" \notin colnames THEN Fatal("key_error")
    ELSE IF \/ pick(colnames, APP_DEPTO_COD) = "None"
            \/ pick(colnames, APP_DEPTO_NOM) = "None"
            \/ pick(colnames, APP_MPIO_COD) = "None"
            \/ pick(colnames, APP_MPIO_NOM) = "None"
            \/ pick(colnames, APP_INDICE) = "None"
            \/ pick(colnames, APP_IPM) = "None"
            \/ pick(colnames, APP_SABER) = "None"
    THEN Fatal("no_column")
    ELSE IF "geojson" \in missing_files THEN Fatal("no_geojson")
    ELSE [NoLoad EXCEPT !.status = "loaded",
                        !.COL_MPIO = pick(colnames, APP_MPIO_COD),
                        !.COL_DEPTO = pick(colnames, APP_DEPTO_COD),
                        !.COL_DEPTO_NOM = pick(colnames, APP_DEPTO_NOM),
                        !.COL_MPIO_NOM = pick(colnames, APP_MPIO_NOM),
                        !.COL_INDICE = pick(colnames, APP_INDICE),
                        !.COL_IPM = pick(colnames, APP_IPM),
                        !.COL_SABER = pick(colnames, APP_SABER)]

----------------------------------------------------------------------------
(* app.py: _predict, the callback of the Predecir button *)

\* dash.no_update
NoUpdate == <<"no_update">>

\* what requests.post and the reading of its answer can come to
ApiOutcomes == {"ok", "no_prediction", "http_error", "exception"}

\* the values _predict returns, with the fifth value of the success path
\* returned on the paths of failure as well
dash_predict_stores_on_failure(municipio_code, api) ==
    IF ~truthy(municipio_code)
    THEN << <<"Seleccione un municipio.">>, << >>, <<"display: none">>, << >> >>
    ELSE IF api = "ok"
    THEN << <<"pred:.4f">>, << >>, <<"display: none">>, <<"POST">>,
            zfill(str_opt(municipio_code), 5) >>
    ELSE << << >>, <<api>>, <<"display: block">>, <<"POST">>,
            zfill(str_opt(municipio_code), 5) >>

\* the values _predict returns: texts of the prediction and of the error, the
\* style of the error area, the debug text and the data of the store
\* pred_mpio.  The survey inputs cannot be cleared, so float() of them does
\* not raise.
dash_predict(municipio_code, api) ==
    IF ~truthy(municipio_code)
    THEN << <<"Seleccione un municipio.">>, << >>, <<"display: none">>, << >> >>
    ELSE IF api = "ok"
    THEN << <<"pred:.4f">>, << >>, <<"display: none">>, <<"POST">>,
            zfill(str_opt(municipio_code), 5) >>
    ELSE << << >>, <<api>>, <<"display: block">>, <<"POST">>, NoUpdate >>

\* the outputs the callback declares
PREDICT_OUTPUTS ==
    <<"prediction_area.children", "error_area.children", "error_area.style",
      "debug_area.children", "pred_mpio.data">>

----------------------------------------------------------------------------
(* Values of the parts of the state a specification does not exercise *)

\* _predict not called
NoCb == [error |-> FALSE, returned |-> << >>]

LoadIdle ==
    /\ header = {}
    /\ no_file = {}
    /\ svc = NoLoad
    /\ dsh = NoLoad

UiIdle ==
    /\ municipio_dropdown = NoneStr
    /\ metric_dropdown = "INDICE"
    /\ pred_mpio = NoneStr
    /\ last_ok = NoneStr
    /\ cb = NoCb
    /\ pending = FALSE

----------------------------------------------------------------------------
(* Strings over an alphabet, up to a length *)

RECURSIVE StringsOfLen(_, _)
StringsOfLen(A, n) ==
    IF n = 0 THEN {<< >>}
    ELSE {<<c>> \o t : c \in A, t \in StringsOfLen(A, n - 1)}

StringsUpTo(A, n) == UNION {StringsOfLen(A, k) : k \in 0..n}

NormAlphabet == {"0", "1", "5", ".", " "}

----------------------------------------------------------------------------
(* Inputs *)

\* cells of the municipality-code column of the master CSV
CodeCells ==
    { NaNCell,
      <<"5", "0", "0", "1">>,
      <<"0", "5", ".", "0", "0", "1">> }

\* cells of the three indicator columns
IndiceCells == { <<"0", ",", "7", "3">>, NaNCell }
IpmCells == { <<"1", "2", ".", "4">>, <<" ">>, <<"N", "A", "N">> }
SaberCells == { <<" ", "2", "4", "5", ".", "0">>, <<"1", ",", "2", ",", "3">> }

DeptoCells == { <<"5">> }

DeptoNomCells == { <<"A", "N", "T">> }

MuniNomCells == { <<"M", "E", "D">> }

CsvRows ==
    [code : CodeCells, depto : DeptoCells,
     depto_nom : DeptoNomCells, muni_nom : MuniNomCells,
     indice : IndiceCells, ipm : IpmCells, saber : SaberCells]

\* the files the service may be started on
CsvFiles == UNION {[1..k -> CsvRows] : k \in 0..MaxRows}

\* municipio_code of a request, before validation
ReqCodes ==
    { <<"5", "0", "0", "1">>,
      <<"0", "5", "-", "0", "0", "2">>,
      << >>,
      <<"x">> }

\* RANGO_EDAD, ESTRATO, PB1_bin, SEXO_bin, P33
Surveys ==
    { <<Num(2, 0), Num(3, 0), Num(1, 0), Num(1, 0), Num(0, 0)>>,
      <<Num(7, 0), Num(6, 0), Num(0, 0), Num(1, 0), Num(5, 0)>> }

ReqDeptCodes == { NoneStr, <<"0", "5">> }

\* what model.predict may do
ModelOutcomes ==
    { [raises |-> TRUE, y |-> NoneF],
      [raises |-> FALSE, y |-> Num(12345, 4)] }

----------------------------------------------------------------------------
(* Specification of the prediction service *)

Init ==
    /\ pc = "start"
    /\ csv \in CsvFiles
    /\ maestro = << >>
    /\ req = NoReq
    /\ resp = NoResp
    /\ X = << >>
    /\ modelCalls = 0
    /\ modelResult = "none"
    /\ modelY = NoneF
    /\ LoadIdle
    /\ UiIdle
    /\ dash = << >>
    /\ geojson = << >>
    /\ map = NoMap
    /\ nx = << >>
    /\ ny = << >>

\* main.py lines 48-109: start-up
Load ==
    /\ pc = "start"
    /\ maestro' = load_maestro(csv)
    /\ pc' = "ready"
    /\ UNCHANGED <<loadVars, uiVars, csv, req, resp, X, modelCalls,
                   modelResult, modelY, dash, geojson, map, nx, ny>>

\* POST /predict
Predict ==
    /\ pc = "ready"
    /\ pc' = "responded"
    /\ \E raw \in ReqCodes, sv \in Surveys, dept \in ReqDeptCodes,
          out \in ModelOutcomes :
          \E r \in {PredictRequest(raw, sv, dept)} :
          \E res \in {predict(maestro, r, out)} :
              /\ req' = r
              /\ resp' = res.resp
              /\ X' = res.X
              /\ modelCalls' = res.calls
              /\ modelResult' = IF res.calls = 0 THEN "none"
                                ELSE IF out.raises THEN "raised"
                                ELSE "returned"
              /\ modelY' = IF res.calls = 0 \/ out.raises THEN NoneF ELSE out.y
    /\ UNCHANGED <<loadVars, uiVars, csv, maestro, dash, geojson, map, nx, ny>>

\* the response is sent and the call's locals are discarded; the table and
\* the model are untouched and the next request is served from them
Respond ==
    /\ pc = "responded"
    /\ pc' = "ready"
    /\ req' = NoReq
    /\ resp' = NoResp
    /\ X' = << >>
    /\ modelCalls' = 0
    /\ modelResult' = "none"
    /\ modelY' = NoneF
    /\ UNCHANGED <<loadVars, uiVars, csv, maestro, dash, geojson, map, nx, ny>>

Next == Load \/ Predict \/ Respond

Spec == Init /\ [][Next]_vars

----------------------------------------------------------------------------
(* Specification of the dashboard's loading and map *)

DashCodeCells == CodeCells \cup { <<"x">> }

DashCsvRows ==
    [code : DashCodeCells, depto : DeptoCells,
     depto_nom : DeptoNomCells, muni_nom : MuniNomCells,
     indice : IndiceCells, ipm : {<<"1", "2", ".", "4">>},
     saber : {<<" ", "2", "4", "5", ".", "0">>}]

DashCsvFiles == UNION {[1..k -> DashCsvRows] : k \in 0..MaxRows}

\* the properties a feature of the geometry file may carry
Features ==
    [DPTO_CCDGO : {NoneStr, <<"0", "5">>},
     MPIO_CCDGO : {NoneStr, <<"0", "0", "1">>, <<"1">>},
     MpCodigo : {NoneStr, <<"5", "0", "0", "1">>},
     COD_MUNICIPIO : {NoneStr}]

GeojsonFiles == UNION {[1..k -> Features] : k \in 0..MaxFeatures}

MetricKeys == {"INDICE", "IPM", "SABER"}

InitDash ==
    /\ pc = "dash_start"
    /\ csv \in DashCsvFiles
    /\ geojson \in GeojsonFiles
    /\ dash = << >>
    /\ map = NoMap
    /\ maestro = << >>
    /\ req = NoReq
    /\ resp = NoResp
    /\ X = << >>
    /\ modelCalls = 0
    /\ modelResult = "none"
    /\ modelY = NoneF
    /\ LoadIdle
    /\ UiIdle
    /\ nx = << >>
    /\ ny = << >>

\* app.py lines 23-54
DashLoadMaestro ==
    /\ pc = "dash_start"
    /\ dash' = load_dash(csv)
    /\ pc' = "dash_table"
    /\ UNCHANGED <<loadVars, uiVars, csv, maestro, req, resp, X, modelCalls,
                   modelResult, modelY,
                   geojson, map, nx, ny>>

\* app.py lines 147-165
DashLoadGeojson ==
    /\ pc = "dash_table"
    /\ geojson' = load_geojson(geojson)
    /\ pc' = "dash_ready"
    /\ UNCHANGED <<loadVars, uiVars, csv, maestro, req, resp, X, modelCalls,
                   modelResult, modelY,
                   dash, map, nx, ny>>

\* the callback _update_map_and_labels; the pred_mpio store is unset
UpdateMap ==
    /\ pc \in {"dash_ready", "rendered"}
    /\ \E dd \in {dash[i].code : i \in 1..Len(dash)} \cup {NoneStr},
          metric_key \in MetricKeys :
          map' = update_map_and_labels(dash, geojson, dd, metric_key, NoneStr)
    /\ pc' = "rendered"
    /\ UNCHANGED <<loadVars, uiVars, csv, maestro, req, resp, X, modelCalls,
                   modelResult, modelY,
                   dash, geojson, nx, ny>>

NextDash == DashLoadMaestro \/ DashLoadGeojson \/ UpdateMap

SpecDash == InitDash /\ [][NextDash]_vars

----------------------------------------------------------------------------
(* Properties of the prediction service *)

\* an indicator cell that is missing, or that float() rejects after the
\* comma has been replaced by a period
AbsentCell(cell) ==
    cell = NaNCell \/ py_float(replace(strip(cell), ",", ".")) = NoneF

CellOf(row, name) ==
    CASE name = "INDICE" -> row.indice
      [] name = "ipm_depto" -> row.ipm
      [] name = "saber_punt_global_mean" -> row.saber

Found == req.municipio_code \in index(maestro)

AbsentNames(row) ==
    SelectSeq(INDICATOR_NAMES, LAMBDA n : AbsentCell(CellOf(row, n)))

\* C1 as stated: the vector handed to the model lists the five survey
\* values, then INDICE, then ipm_depto, then saber_punt_global_mean.
C1_OrderAsClaimed ==
    modelCalls = 1 =>
        LET row == loc(maestro, req.municipio_code)
        IN  X = <<req.RANGO_EDAD, req.ESTRATO, req.PB1_bin, req.SEXO_bin,
                  req.P33, to_float_maybe_comma(row.indice),
                  to_float_maybe_comma(row.ipm),
                  to_float_maybe_comma(row.saber)>>

\* C1 amended: the vector handed to the model lists the five survey values
\* RANGO_EDAD, ESTRATO, PB1_bin, SEXO_bin, P33, then ipm_depto, then INDICE,
\* then saber_punt_global_mean; with indice 0.73, ipm 12.4, saber 245.0 and
\* survey 2,3,1,1,0 it is [2,3,1,1,0,12.4,0.73,245.0].
C1_FeatureOrder ==
    modelCalls = 1 =>
        LET row == loc(maestro, req.municipio_code)
        IN  /\ X = <<req.RANGO_EDAD, req.ESTRATO, req.PB1_bin, req.SEXO_bin,
                     req.P33, to_float_maybe_comma(row.ipm),
                     to_float_maybe_comma(row.indice),
                     to_float_maybe_comma(row.saber)>>
            /\ (/\ row.indice = <<"0", ",", "7", "3">>
                /\ row.ipm = <<"1", "2", ".", "4">>
                /\ row.saber = <<" ", "2", "4", "5", ".", "0">>
                /\ req.RANGO_EDAD = Num(2, 0) /\ req.ESTRATO = Num(3, 0)
                /\ req.PB1_bin = Num(1, 0) /\ req.SEXO_bin = Num(1, 0)
                /\ req.P33 = Num(0, 0))
               => X = <<Num(2, 0), Num(3, 0), Num(1, 0), Num(1, 0), Num(0, 0),
                        Num(124, 1), Num(73, 2), Num(245, 0)>>

C1_Witness ==
    /\ pc = "responded"
    /\ req.raw = <<"5", "0", "0", "1">>
    /\ resp.status = 200
    /\ X = <<Num(2, 0), Num(3, 0), Num(1, 0), Num(1, 0), Num(0, 0),
             Num(124, 1), Num(73, 2), Num(245, 0)>>

\* C2: a request whose municipio_code carries no digit is never answered
\* with a successful prediction.
C2_NoDigitCodeNotFound ==
    (pc = "responded" /\ sub_nondigits(req.raw) = << >>) => resp.status # 200

\* C3: when an indicator of the looked-up record is missing or unparseable,
\* predict answers 404 naming exactly the absent indicators, the model is
\* not called, and no vector handed to the model holds an absent value or a
\* number standing in for one.
C3_AbsentNeverReachesModel ==
    /\ \A i \in DOMAIN X : X[i] # NoneF
    /\ (pc = "responded" /\ Found) =>
           LET row == loc(maestro, req.municipio_code)
           IN  IF AbsentNames(row) # << >>
               THEN /\ resp.status = 404
                    /\ resp.kind = "missing"
                    /\ resp.missing = AbsentNames(row)
                    /\ resp.code = req.municipio_code
                    /\ modelCalls = 0
                    /\ modelResult = "none"
                    /\ X = << >>
               ELSE resp.kind # "missing"

C3_Witness ==
    /\ pc = "responded"
    /\ Found
    /\ resp.status = 404
    /\ resp.missing = <<"ipm_depto">>
    /\ loc(maestro, req.municipio_code).ipm = <<" ">>
    /\ modelCalls = 0

\* C4: a request whose normalised code is not a key of the table is
\* answered 404 with the normalised 5-digit code in the message, and the
\* model is not invoked.
C4_UnknownCodeIs404 ==
    (pc = "responded" /\ norm_mpio(req.raw) \notin index(maestro)) =>
        /\ resp.status = 404
        /\ resp.kind = "not_found"
        /\ resp.code = norm_mpio(req.raw)
        /\ Len(resp.code) = 5
        /\ AllDigits(resp.code)
        /\ modelCalls = 0
        /\ modelResult = "none"
        /\ X = << >>

C4_Witness ==
    /\ pc = "responded"
    /\ maestro # << >>
    /\ req.raw = <<"0", "5", "-", "0", "0", "2">>
    /\ resp.status = 404
    /\ resp.code = <<"0", "5", "0", "0", "2">>

\* C5: every outcome of predict is a success, a 404 or a 500; a failure of
\* model.predict is reported as 500 and nothing else is; an unknown code or
\* an absent indicator is reported as 404.
C5_OutcomeClasses ==
    pc = "responded" =>
        /\ resp.status \in {200, 404, 500}
        /\ resp.kind \in {"ok", "not_found", "missing", "predict_error"}
        /\ (resp.status = 200) = (resp.kind = "ok")
        /\ (resp.status = 404) = (resp.kind \in {"not_found", "missing"})
        /\ (resp.status = 500) = (resp.kind = "predict_error")
        /\ (modelResult = "raised") = (resp.status = 500)
        /\ (modelResult = "returned") = (resp.status = 200)
        /\ ~Found => resp.status = 404
        /\ (Found /\ AbsentNames(loc(maestro, req.municipio_code)) # << >>)
               => resp.status = 404

C5_Witness ==
    /\ pc = "responded"
    /\ modelResult = "raised"
    /\ resp.status = 500
    /\ modelCalls = 1

\* C10: after loading, the table holds exactly one record per normalised
\* code, every source row's normalised code is a key, and the record kept
\* for a key is the first source row that normalises to it.
C10_FirstOccurrenceWins ==
    pc # "start" =>
        LET key(i) == norm_mpio(astype_str(csv[i].code))
        IN  /\ \A i, j \in 1..Len(maestro) :
                   maestro[i].code = maestro[j].code => i = j
            /\ index(maestro) = {key(i) : i \in 1..Len(csv)}
            /\ \A i \in 1..Len(csv) :
                   (\A j \in 1..(i - 1) : key(j) # key(i)) =>
                       loc(maestro, key(i)) = [csv[i] EXCEPT !.code = key(i)]

C10_Witness ==
    /\ pc = "ready"
    /\ Len(csv) = 2
    /\ csv[1].code = <<"5", "0", "0", "1">>
    /\ csv[2].code = <<"0", "5", ".", "0", "0", "1">>
    /\ csv[1].indice # csv[2].indice
    /\ Len(maestro) = 1
    /\ maestro[1].indice = csv[1].indice

FEATURE_NAMES ==
    {"RANGO_EDAD", "ESTRATO", "PB1_bin", "SEXO_bin", "P33",
     "INDICE", "ipm_depto", "saber_punt_global_mean"}

\* C11: on success the response carries the model's scalar unchanged, and
\* features_used maps exactly the eight feature names to the request's five
\* survey values and the record's three coerced indicators; every name has
\* one position in the vector the model received, the value at that position
\* is the value echoed under the name, and dept_code is no column of it.
C11_VerbatimAndEcho ==
    (pc = "responded" /\ resp.status = 200) =>
        LET row == loc(maestro, req.municipio_code)
            fu == resp.features_used
            decoded == [n \in FEATURE_NAMES |->
                          X[CHOOSE i \in 1..Len(X) : FEATURE_ORDER[i] = n]]
        IN  /\ modelResult = "returned"
            /\ resp.prediction = modelY
            /\ DOMAIN fu = FEATURE_NAMES
            /\ fu["RANGO_EDAD"] = req.RANGO_EDAD
            /\ fu["ESTRATO"] = req.ESTRATO
            /\ fu["PB1_bin"] = req.PB1_bin
            /\ fu["SEXO_bin"] = req.SEXO_bin
            /\ fu["P33"] = req.P33
            /\ fu["INDICE"] = py_float(replace(strip(row.indice), ",", "."))
            /\ fu["ipm_depto"] = py_float(replace(strip(row.ipm), ",", "."))
            /\ fu["saber_punt_global_mean"]
                   = py_float(replace(strip(row.saber), ",", "."))
            /\ Len(X) = 8
            /\ \A n \in FEATURE_NAMES :
                   Cardinality({i \in 1..Len(X) : FEATURE_ORDER[i] = n}) = 1
            /\ decoded = fu
            /\ \A i \in 1..Len(X) : FEATURE_ORDER[i] # "dept_code"
            /\ "dept_code" \notin DOMAIN fu

C11_Witness ==
    /\ pc = "responded"
    /\ resp.status = 200
    /\ req.dept_code = <<"0", "5">>
    /\ modelY = Num(12345, 4)
    /\ resp.prediction = Num(12345, 4)
    /\ resp.features_used["ipm_depto"] = Num(124, 1)

----------------------------------------------------------------------------
(* Properties of the reference data across the two programs *)

\* the canonical 5-digit form of a raw code: its digits, the trailing five
\* when there are more, preceded by zeros
CanonicalCode(raw) ==
    LET d == SelectSeq(raw, LAMBDA c : c \in Digits)
        n == IF Len(d) < 5 THEN Len(d) ELSE 5
    IN  [i \in 1..5 |-> IF i <= 5 - n THEN "0" ELSE d[Len(d) - 5 + i]]

DashLoaded == pc \in {"dash_ready", "rendered"}

\* C7: for any raw code carrying a digit, the key the service stores for a table row, the
\* key the dashboard stores for it, the key stored on a geometry feature and
\* the key derived from a request are all the canonical 5-digit form of that
\* raw code.
C7_SameKeyEverywhere ==
    DashLoaded =>
        /\ \A i \in 1..Len(csv) :
               (csv[i].code # NaNCell /\ sub_nondigits(csv[i].code) # << >>) =>
                   /\ normalize_codes(csv)[i].code = CanonicalCode(csv[i].code)
                   /\ dash[i].code = CanonicalCode(csv[i].code)
                   /\ \A sv \in Surveys :
                          PredictRequest(csv[i].code, sv, NoneStr).municipio_code
                              = CanonicalCode(csv[i].code)
        /\ \A i \in 1..Len(geojson) :
               (/\ geojson[i].DPTO_CCDGO = NoneStr
                /\ geojson[i].MPIO_CCDGO = NoneStr
                /\ geojson[i].MpCodigo # NoneStr) =>
                   /\ geojson[i].COD_MUNICIPIO
                          = CanonicalCode(geojson[i].MpCodigo)
                   /\ all_geojson_codes(geojson)[i]
                          = CanonicalCode(geojson[i].MpCodigo)

\* C8: after the geometry is loaded every feature's COD_MUNICIPIO is a
\* 5-character digit string: the 2-digit department code followed by the
\* 3-digit municipality code when both fields carry digits, the canonical
\* form of the legacy field when the primary fields are absent; and it equals
\* the key the service's table holds for the same municipality.
C8_GeometryKey ==
    DashLoaded =>
        \A i \in 1..Len(geojson) :
            LET f == geojson[i]
                dp == sub_nondigits(prop_get(f.DPTO_CCDGO, << >>))
                mp == sub_nondigits(prop_get(f.MPIO_CCDGO, << >>))
                municipality == zfill(last_n(dp, 2), 2) \o zfill(last_n(mp, 3), 3)
            IN  /\ Len(f.COD_MUNICIPIO) = 5
                /\ AllDigits(f.COD_MUNICIPIO)
                /\ (dp # << >> /\ mp # << >>) =>
                       /\ f.COD_MUNICIPIO = municipality
                       /\ \A j \in 1..Len(csv) :
                              (/\ csv[j].code # NaNCell
                               /\ CanonicalCode(csv[j].code) = municipality) =>
                                  normalize_codes(csv)[j].code = f.COD_MUNICIPIO
                /\ (f.DPTO_CCDGO = NoneStr /\ f.MPIO_CCDGO = NoneStr) =>
                       f.COD_MUNICIPIO
                           = CanonicalCode(prop_get(f.MpCodigo, << >>))

\* C9 as stated: every code the map draws, and every key of the service's
\* index, has a record in the reference table.
C9_LookupTotalAsClaimed ==
    /\ \A k \in index(load_maestro(csv)) : \A sv \in Surveys, out \in ModelOutcomes :
           predict(load_maestro(csv), PredictRequest(k, sv, NoneStr), out)
               .resp.kind # "not_found"
    /\ (pc = "rendered" /\ ~map.error) =>
           \A i \in 1..Len(map.locations) :
               rows_with(dash, map.locations[i]) # {}

\* C9 amended: lookup is total over the keys of the service's index (every
\* key, sent as a request code, is found); a geometry code has a record only
\* when it is a key of the dashboard's table, and otherwise the map, when
\* the callback returns, carries no value and no table name for it.
C9_LookupTotalOnIndexKeys ==
    /\ \A k \in index(load_maestro(csv)) : \A sv \in Surveys, out \in ModelOutcomes :
           predict(load_maestro(csv), PredictRequest(k, sv, NoneStr), out)
               .resp.kind # "not_found"
    /\ (pc = "rendered" /\ ~map.error) =>
           /\ Len(map.locations) = Len(geojson)
           /\ Len(map.z) = Len(geojson)
           /\ \A i \in 1..Len(map.locations) :
                  IF \E j \in 1..Len(dash) : dash[j].code = map.locations[i]
                  THEN \E j \in 1..Len(dash) :
                           /\ dash[j].code = map.locations[i]
                           /\ map.custom[i][2] = dash[j].muni_nom
                  ELSE /\ map.z[i] = NoneF
                       /\ map.custom[i][1] = << >>
                       /\ map.custom[i][3] = NoneF

C9_Witness ==
    /\ pc = "rendered"
    /\ ~map.error
    /\ Len(csv) = 2
    /\ index(load_maestro(csv)) = {<<"0", "5", "0", "0", "1">>}
    /\ map.locations = << <<"0", "0", "0", "0", "1">> >>
    /\ map.z = <<NoneF>>

----------------------------------------------------------------------------
(* Specification of the start-up of the two programs *)

\* column names a master CSV file may carry
ColumnNames ==
    {"COD_MUNICIPIO", "cod_municipio", "MpCodigo",
     "COD_DEPARTAMENTO", "DEPARTAMENTO", "MUNICIPIO",
     "INDICE", "indice", "ipm", "ipm_depto",
     "saber_punt_global_mean", "saber_global"}

ResourceFiles == {"csv", "model", "geojson"}

InitLoad ==
    /\ pc = "load"
    /\ header \in SUBSET ColumnNames
    /\ no_file \in SUBSET ResourceFiles
    /\ svc = NoLoad
    /\ dsh = NoLoad
    /\ csv = << >>
    /\ maestro = << >>
    /\ req = NoReq
    /\ resp = NoResp
    /\ X = << >>
    /\ modelCalls = 0
    /\ modelResult = "none"
    /\ modelY = NoneF
    /\ dash = << >>
    /\ geojson = << >>
    /\ map = NoMap
    /\ nx = << >>
    /\ ny = << >>
    /\ UiIdle

StartService ==
    /\ pc = "load"
    /\ svc.status = "none"
    /\ svc' = start_service(header, no_file)
    /\ UNCHANGED <<pc, csv, maestro, req, resp, X, modelCalls, modelResult,
                   modelY, dash, geojson, map, nx, ny, header, no_file, dsh,
                   uiVars>>

StartDash ==
    /\ pc = "load"
    /\ dsh.status = "none"
    /\ dsh' = start_dash(header, no_file)
    /\ UNCHANGED <<pc, csv, maestro, req, resp, X, modelCalls, modelResult,
                   modelY, dash, geojson, map, nx, ny, header, no_file, svc,
                   uiVars>>

NextLoad == StartService \/ StartDash

SpecLoad == InitLoad /\ [][NextLoad]_vars

----------------------------------------------------------------------------
(* Properties of the start-up *)

HasAlias(candidates) == \E i \in 1..Len(candidates) : candidates[i] \in header

FirstAlias(candidates) ==
    candidates[CHOOSE i \in 1..Len(candidates) :
        /\ candidates[i] \in header
        /\ \A j \in 1..(i - 1) : candidates[j] \notin header]

MainRequired == {MAIN_MPIO, MAIN_INDICE, MAIN_IPM, MAIN_SABER}

AppRequired ==
    {APP_DEPTO_COD, APP_DEPTO_NOM, APP_MPIO_COD, APP_MPIO_NOM,
     APP_INDICE, APP_IPM, APP_SABER}

\* C12: each loader fails at start-up exactly when a resource is missing or
\* a required column has none of its aliases in the table, and otherwise
\* resolves every required column to the first alias present.
C12_AliasResolution ==
    /\ svc.status # "none" =>
          /\ (svc.status = "fatal") =
                 (\/ "csv" \in no_file \/ "model" \in no_file
                  \/ \E c \in MainRequired : ~HasAlias(c))
          /\ svc.status = "loaded" =>
                 /\ svc.COL_MPIO = FirstAlias(MAIN_MPIO)
                 /\ svc.COL_INDICE = FirstAlias(MAIN_INDICE)
                 /\ svc.COL_IPM = FirstAlias(MAIN_IPM)
                 /\ svc.COL_SABER = FirstAlias(MAIN_SABER)
    /\ dsh.status # "none" =>
          /\ (dsh.status = "fatal") =
                 (\/ "csv" \in no_file \/ "geojson" \in no_file
                  \/ \E c \in AppRequired : ~HasAlias(c))
          /\ dsh.status = "loaded" =>
                 /\ dsh.COL_DEPTO = FirstAlias(APP_DEPTO_COD)
                 /\ dsh.COL_DEPTO_NOM = FirstAlias(APP_DEPTO_NOM)
                 /\ dsh.COL_MPIO = FirstAlias(APP_MPIO_COD)
                 /\ dsh.COL_MPIO_NOM = FirstAlias(APP_MPIO_NOM)
                 /\ dsh.COL_INDICE = FirstAlias(APP_INDICE)
                 /\ dsh.COL_IPM = FirstAlias(APP_IPM)
                 /\ dsh.COL_SABER = FirstAlias(APP_SABER)

\* C15: when both programs load the table, they resolve INDICE, IPM and
\* Saber to the same column of it.
C15_SameIndicatorColumns ==
    (svc.status = "loaded" /\ dsh.status = "loaded") =>
        /\ svc.COL_INDICE = dsh.COL_INDICE
        /\ svc.COL_IPM = dsh.COL_IPM
        /\ svc.COL_SABER = dsh.COL_SABER

----------------------------------------------------------------------------
(* Specification of the dashboard's callbacks *)

UiCsvRows ==
    [code : { <<"5", "0", "0", "1">>, <<"0", "5", "0", "0", "2">> },
     depto : { <<"5">> }, depto_nom : { <<"A">> }, muni_nom : { <<"M">> },
     indice : { <<"0", ",", "7", "3">> }, ipm : { <<"1", "2", ".", "4">> },
     saber : { <<" ", "2", "4", "5", ".", "0">> }]

UiCsvFiles == UNION {[1..k -> UiCsvRows] : k \in 0..MaxRows}

UiGeojsonFiles ==
    UNION {[1..k -> [DPTO_CCDGO : { <<"0", "5">> },
                     MPIO_CCDGO : { <<"0", "0", "1">> },
                     MpCodigo : {NoneStr}, COD_MUNICIPIO : {NoneStr}]]
           : k \in 0..MaxFeatures}

\* the values of the options of the municipality dropdown
municipio_options(table) == {table[i].code : i \in 1..Len(table)}

\* the page as served: the store is empty, the municipality dropdown holds
\* an option when there is one, and the map callback is due
InitUI ==
    /\ pc = "ui"
    /\ csv \in UiCsvFiles
    /\ dash = load_dash(csv)
    /\ geojson \in {load_geojson(f) : f \in UiGeojsonFiles}
    /\ municipio_dropdown \in
           IF municipio_options(dash) = {} THEN {NoneStr}
           ELSE municipio_options(dash)
    /\ metric_dropdown = "INDICE"
    /\ pred_mpio = NoneStr
    /\ last_ok = NoneStr
    /\ cb = NoCb
    /\ pending = TRUE
    /\ map = NoMap
    /\ maestro = << >>
    /\ req = NoReq
    /\ resp = NoResp
    /\ X = << >>
    /\ modelCalls = 0
    /\ modelResult = "none"
    /\ modelY = NoneF
    /\ nx = << >>
    /\ ny = << >>
    /\ LoadIdle

\* the user picks a municipality
ChangeDropdown ==
    /\ pc = "ui"
    /\ \E code \in municipio_options(dash) :
          /\ code # municipio_dropdown
          /\ municipio_dropdown' = code
    /\ pending' = TRUE
    /\ UNCHANGED <<pc, csv, maestro, req, resp, X, modelCalls, modelResult,
                   modelY, dash, geojson, map, nx, ny, loadVars,
                   metric_dropdown, pred_mpio, last_ok, cb>>

\* the user picks a metric
ChangeMetric ==
    /\ pc = "ui"
    /\ \E m \in MetricKeys :
          /\ m # metric_dropdown
          /\ metric_dropdown' = m
    /\ pending' = TRUE
    /\ UNCHANGED <<pc, csv, maestro, req, resp, X, modelCalls, modelResult,
                   modelY, dash, geojson, map, nx, ny, loadVars,
                   municipio_dropdown, pred_mpio, last_ok, cb>>

\* a click on Predecir: _predict runs, and its values are applied to the
\* outputs when there is one for each; otherwise no output changes
ClickPredict ==
    /\ pc = "ui"
    /\ \E api \in ApiOutcomes :
          \E returned \in {dash_predict(municipio_dropdown, api)} :
             LET applied == Len(returned) = Len(PREDICT_OUTPUTS)
                 stored == applied /\ returned[Len(PREDICT_OUTPUTS)] # NoUpdate
             IN  /\ cb' = [error |-> ~applied, returned |-> returned]
                 /\ pred_mpio' = IF stored THEN returned[Len(PREDICT_OUTPUTS)]
                                 ELSE pred_mpio
                 /\ pending' = (pending \/ stored)
                 /\ last_ok' = IF truthy(municipio_dropdown) /\ api = "ok"
                               THEN municipio_dropdown ELSE last_ok
    /\ UNCHANGED <<pc, csv, maestro, req, resp, X, modelCalls, modelResult,
                   modelY, dash, geojson, map, nx, ny, loadVars,
                   municipio_dropdown, metric_dropdown>>

\* _update_map_and_labels runs on the present values of its inputs
MapCallback ==
    /\ pc = "ui"
    /\ pending
    /\ map' = update_map_and_labels(dash, geojson, municipio_dropdown,
                                    metric_dropdown, pred_mpio)
    /\ pending' = FALSE
    /\ UNCHANGED <<pc, csv, maestro, req, resp, X, modelCalls, modelResult,
                   modelY, dash, geojson, nx, ny, loadVars,
                   municipio_dropdown, metric_dropdown, pred_mpio, last_ok,
                   cb>>

NextUI == ChangeDropdown \/ ChangeMetric \/ ClickPredict \/ MapCallback

SpecUI == InitUI /\ [][NextUI]_vars

----------------------------------------------------------------------------
(* Properties of the dashboard's callbacks *)

\* C13: the store pred_mpio is unset until a prediction succeeds and then
\* holds the code, padded to five characters, of the municipality of the
\* most recent successful prediction, failures leaving it as it was; a map
\* that was drawn for the present inputs highlights pred_mpio when it is
\* set and the selection of the dropdown otherwise.
C13_StoreAndHighlight ==
    /\ pred_mpio = IF last_ok = NoneStr THEN NoneStr ELSE zfill(last_ok, 5)
    /\ (~pending /\ ~map.error) =>
          map.hl_code =
              IF pred_mpio # NoneStr THEN pred_mpio
              ELSE IF municipio_dropdown # NoneStr
              THEN zfill(municipio_dropdown, 5)
              ELSE NoneStr

\* a failed prediction after a successful one for another municipality, with
\* the map drawn
C13_Witness ==
    /\ ~pending
    /\ ~map.error
    /\ pred_mpio = <<"0", "5", "0", "0", "1">>
    /\ municipio_dropdown = <<"0", "5", "0", "0", "2">>
    /\ map.hl_code = <<"0", "5", "0", "0", "1">>
    /\ cb.returned[2] = <<"http_error">>

\* C14: every call of _predict returns one value for each of its five
\* outputs.
C14_FiveOutputs ==
    cb # NoCb => Len(cb.returned) = Len(PREDICT_OUTPUTS)

----------------------------------------------------------------------------
(* Specification of the normaliser alone *)

InitNorm ==
    /\ pc = "norm_in"
    /\ nx \in StringsUpTo(NormAlphabet, MaxLen)
    /\ ny = << >>
    /\ csv = << >>
    /\ maestro = << >>
    /\ req = NoReq
    /\ resp = NoResp
    /\ X = << >>
    /\ modelCalls = 0
    /\ modelResult = "none"
    /\ modelY = NoneF
    /\ LoadIdle
    /\ UiIdle
    /\ dash = << >>
    /\ geojson = << >>
    /\ map = NoMap

ApplyNorm ==
    /\ pc = "norm_in"
    /\ ny' = norm_mpio(nx)
    /\ pc' = "norm_out"
    /\ UNCHANGED <<loadVars, uiVars, nx, csv, maestro, req, resp, X, modelCalls,
                   modelResult, modelY,
                   dash, geojson, map>>

NextNorm == ApplyNorm

SpecNorm == InitNorm /\ [][NextNorm]_vars

----------------------------------------------------------------------------
(* Properties of the normaliser *)

\* C6: norm_mpio returns the 5-character digit string made of the input's
\* digits (the trailing 5 when there are more), padded on the left with "0";
\* normalising the result again changes nothing; and a code of 1 to 5 digits
\* written with separators normalises to its zero-padded canonical form, as
\* that canonical form itself does.
C6_NormalForm ==
    pc = "norm_out" =>
        LET d == SelectSeq(nx, LAMBDA c : c \in Digits)
            n == IF Len(d) < 5 THEN Len(d) ELSE 5
        IN  /\ Len(ny) = 5
            /\ \A i \in 1..5 :
                   ny[i] = IF i <= 5 - n THEN "0" ELSE d[Len(d) - 5 + i]
            /\ norm_mpio(ny) = ny
            /\ (Len(d) \in 1..5) =>
                   LET canonical == [i \in 1..5 |->
                           IF i <= 5 - Len(d) THEN "0" ELSE d[i - (5 - Len(d))]]
                   IN  ny = canonical /\ norm_mpio(canonical) = canonical

C6_Witness ==
    /\ pc = "norm_out"
    /\ nx = <<"5", ".", "0", "0", "1">>
    /\ ny = <<"0", "5", "0", "0", "1">>

====
